---- MODULE Spec2Model ----
(***************************************************************************)
(* Porkbun dynamic-DNS updater (src/src/main.rs).                          *)
(*                                                                         *)
(* main() reads its configuration from the environment, then loops         *)
(* forever: resolve the public IPv4 address, and for every configured      *)
(* subdomain fetch the provider's A record and edit it when its content    *)
(* differs from the resolved address; then sleep.                          *)
(*                                                                         *)
(* Strings are sequences of one-character strings, so that trim, split,    *)
(* parse and format are computed, not assumed.  The program is one task:   *)
(* every action is the code from one await to the next.                    *)
(***************************************************************************)
EXTENDS Integers, Sequences, FiniteSets, TLC

VARIABLES
    pc,                      \* position of main()
    env,                     \* what env::var returned for each variable read so far
    api_key,                 \* main.rs:205
    secret_api_key,          \* main.rs:207
    domain,                  \* main.rs:209
    subdomains,              \* main.rs:216
    check_interval_seconds,  \* main.rs:222
    current_ip,              \* main.rs:237, bound for one cycle
    idx,                     \* position of the for loop of main.rs:239
    existing_record_result,  \* main.rs:243, what the last fetch returned
    calls,                   \* history: the remote calls and sleeps of the current cycle
    outcome,                 \* history: the branch the last processed subdomain took
    resp,                    \* the provider response a lone get_porkbun_a_record call reads
    logs,                    \* the lines the last step wrote to the log, where the log is kept
    public_ip,               \* the body the IP echo service answers with, when it is fixed
    zone                     \* the provider's records, when the provider is modelled

vars == <<pc, env, api_key, secret_api_key, domain, subdomains,
          check_interval_seconds, current_ip, idx, existing_record_result,
          calls, outcome, resp, logs, public_ip, zone>>

config == <<api_key, secret_api_key, domain, subdomains, check_interval_seconds>>

(***************************************************************************)
(* Bounds of the model.                                                    *)
(***************************************************************************)
\* most names in the PORKBUN_SUBDOMAIN value
MaxSubdomains == 2
\* longest PORKBUN_CHECK_INTERVAL_SECONDS value
MaxIntervalLen == 1
\* longest body of the IP echo service
MaxBodyLen == 2
\* longest record list of a provider response
MaxRecords == 2

(***************************************************************************)
(* Option and Result values.                                               *)
(***************************************************************************)
None == [some |-> FALSE]

Some(v) == [some |-> TRUE, val |-> v]

Ok(v) == [ok |-> TRUE, val |-> v]

Err(e) == [ok |-> FALSE, err |-> e]

Unread == [read |-> FALSE]

(***************************************************************************)
(* Strings.                                                                *)
(***************************************************************************)
\* all sequences over S of length at most n
RECURSIVE SeqsUpTo(_, _)
SeqsUpTo(S, n) ==
    IF n = 0 THEN {<<>>}
    ELSE LET shorter == SeqsUpTo(S, n - 1)
         IN  shorter \cup {Append(s, c) : s \in {t \in shorter : Len(t) = n - 1}, c \in S}

\* the sequences of SeqsUpTo(S, n) that hold no element twice
NoRepeatSeqsUpTo(S, n) ==
    {s \in SeqsUpTo(S, n) : \A i, j \in 1..Len(s) : s[i] = s[j] => i = j}

Whitespace == {" ", "\n", "\t"}

\* str::trim
RECURSIVE trim(_)
trim(s) ==
    IF s = <<>> THEN s
    ELSE IF Head(s) \in Whitespace THEN trim(Tail(s))
    ELSE IF s[Len(s)] \in Whitespace THEN trim(SubSeq(s, 1, Len(s) - 1))
    ELSE s

\* str::split(','): the pieces between the commas, at least one piece
RECURSIVE split(_)
split(s) ==
    IF \A i \in 1..Len(s) : s[i] # ","
    THEN <<s>>
    ELSE LET i == CHOOSE k \in 1..Len(s) :
                      s[k] = "," /\ \A j \in 1..(k - 1) : s[j] # ","
         IN  <<SubSeq(s, 1, i - 1)>> \o split(SubSeq(s, i + 1, Len(s)))

Digits == {"0", "1", "2", "3", "4", "5", "6", "7", "8", "9"}

DigitVal(c) ==
    CASE c = "0" -> 0 [] c = "1" -> 1 [] c = "2" -> 2 [] c = "3" -> 3
      [] c = "4" -> 4 [] c = "5" -> 5 [] c = "6" -> 6 [] c = "7" -> 7
      [] c = "8" -> 8 [] c = "9" -> 9

RECURSIVE DecimalVal(_)
DecimalVal(s) ==
    IF s = <<>> THEN 0
    ELSE 10 * DecimalVal(SubSeq(s, 1, Len(s) - 1)) + DigitVal(s[Len(s)])

\* str::parse::<u64>: an optional "+", then one or more decimal digits; no
\* whitespace and no "-".  The values of the model stay far below 2^64.
parse_u64(s) ==
    LET digits == IF s # <<>> /\ Head(s) = "+" THEN Tail(s) ELSE s
    IN  IF digits # <<>> /\ \A i \in 1..Len(digits) : digits[i] \in Digits
        THEN Ok(DecimalVal(digits))
        ELSE Err(<<"ParseIntError">>)

(***************************************************************************)
(* The environment.                                                        *)
(***************************************************************************)
\* env::var fails when the variable is not present or is not Unicode
VarError == Err(<<"VarError">>)

ApiKeys == {<<"K">>}

SecretKeys == {<<"S">>}

Domains == {<<"d">>}

\* what stands between the commas of PORKBUN_SUBDOMAIN: nothing (the root), a
\* name with records, a name without, with blanks around it
SubdomainPieces == {<<>>, <<"w">>, <<" ", "m", " ">>}

\* the pieces with a comma between each two
RECURSIVE join(_)
join(pieces) ==
    IF Len(pieces) = 1 THEN pieces[1]
    ELSE pieces[1] \o <<",">> \o join(Tail(pieces))

SubdomainValues ==
    {join(pieces) : pieces \in SeqsUpTo(SubdomainPieces, MaxSubdomains) \ {<<>>}}

IntervalChars == {"7", "+", "x"}

EnvApiKey == {VarError} \cup {Ok(v) : v \in ApiKeys}

EnvSecretKey == {VarError} \cup {Ok(v) : v \in SecretKeys}

EnvDomain == {VarError} \cup {Ok(v) : v \in Domains}

EnvSubdomain == {VarError} \cup {Ok(v) : v \in SubdomainValues}

EnvInterval == {VarError} \cup {Ok(v) : v \in SeqsUpTo(IntervalChars, MaxIntervalLen)}

\* Result::unwrap_or_else(|_| default)
unwrap_or(r, default) == IF r.ok THEN r.val ELSE default

\* a bug: without the setting the name "w" is looked after
DefaultSubdomainsNamed == <<"w">>

DefaultSubdomains == <<>>

DefaultInterval == <<"3", "0", "0">>

(***************************************************************************)
(* The IP echo service and get_current_ipv4.                               *)
(***************************************************************************)
BodyChars == {"1", " ", "\n"}

\* what the transport can deliver: a failed request, a body that cannot be
\* read, or any body (the HTTP status is not looked at)
IpResponses ==
    {[kind |-> "send_err"], [kind |-> "text_err"]}
        \cup {[kind |-> "text", body |-> b] : b \in SeqsUpTo(BodyChars, MaxBodyLen)}

\* a bug: a body that is not an address is refused
get_current_ipv4_validates(response) ==
    IF response.kind = "text"
    THEN IF trim(response.body) # <<>> /\ \A i \in DOMAIN trim(response.body) :
                                               trim(response.body)[i] \notin Whitespace
         THEN Ok(trim(response.body))
         ELSE Err(<<"invalid address">>)
    ELSE Err(<<"reqwest::Error">>)

get_current_ipv4(response) ==
    IF response.kind = "text" THEN Ok(trim(response.body)) ELSE Err(<<"reqwest::Error">>)

resolve_request == [op |-> "resolve", method |-> "GET", url |-> <<"https://api.ipify.org">>]

(***************************************************************************)
(* The provider and get_porkbun_a_record.                                  *)
(***************************************************************************)
full_name(dom, subdomain) ==
    IF subdomain = <<>> THEN dom ELSE subdomain \o <<".">> \o dom

DnsRecord(t, n, c, l, i) ==
    [record_type |-> t, name |-> n, content |-> c, ttl |-> l, id |-> i]

\* the records the provider answers with in the loop: two A records of the
\* same name, a record of another type with that name, and the root's A record
ProviderRecords ==
    { DnsRecord("A", <<"w", ".", "d">>, <<"1">>, "600", <<"r1">>),
      DnsRecord("A", <<"w", ".", "d">>, <<"1", "1">>, "300", <<"r2">>),
      DnsRecord("CNAME", <<"w", ".", "d">>, <<"1">>, "300", <<"r3">>),
      DnsRecord("A", <<"d">>, <<"1", "1">>, "300", <<"r4">>) }

Statuses == {"SUCCESS", "ERROR"}

Messages == {None, Some("Invalid API key")}

\* a failed request, a body that is not the expected JSON, or a parsed body
\* with any status, message and record list
RetrieveResponses(lists) ==
    {[kind |-> "send_err"], [kind |-> "json_err"]}
        \cup [kind : {"json"}, status : Statuses, message : Messages,
              records : {None} \cup {Some(l) : l \in lists}]

\* what the provider answers in the loop: success with a list of its records
\* (no record twice) or with none, or an error with or without a message
ProviderResponses ==
    {r \in RetrieveResponses(NoRepeatSeqsUpTo(ProviderRecords, MaxRecords)) :
        r.kind = "json" =>
            IF r.status = "SUCCESS" THEN ~r.message.some ELSE ~r.records.some}

\* a bug: the closure looks at the name alone
RECURSIVE find_by_name(_, _)
find_by_name(records, name) ==
    IF records = <<>> THEN None
    ELSE IF Head(records).name = name
         THEN Some(Head(records))
         ELSE find_by_name(Tail(records), name)

\* a bug: the last element that satisfies the closure is taken
RECURSIVE find_last_a_record(_, _)
find_last_a_record(records, name) ==
    IF records = <<>> THEN None
    ELSE LET last == records[Len(records)]
         IN  IF last.record_type = "A" /\ last.name = name
             THEN Some(last)
             ELSE find_last_a_record(SubSeq(records, 1, Len(records) - 1), name)

\* Iterator::find: the first element, in order, that satisfies the closure
RECURSIVE find_a_record(_, _)
find_a_record(records, name) ==
    IF records = <<>> THEN None
    ELSE IF Head(records).record_type = "A" /\ Head(records).name = name
         THEN Some(Head(records))
         ELSE find_a_record(Tail(records), name)

unwrap_message(message) == IF message.some THEN message.val ELSE "Unknown error"

get_porkbun_a_record(dom, subdomain, response) ==
    IF response.kind # "json" THEN Err(<<"reqwest::Error">>)
    ELSE IF response.status = "SUCCESS"
         THEN IF response.records.some
              THEN Ok(find_a_record(response.records.val, full_name(dom, subdomain)))
              ELSE Ok(None)
         ELSE Err(<<"Porkbun API error: ", unwrap_message(response.message)>>)

\* a bug: the key travels in the URL as well
retrieve_request_key_in_url(key, secret, dom, subdomain) ==
    [op |-> "fetch", method |-> "POST",
     url |-> <<"https://api.porkbun.com/api/json/v3/dns/retrieveByNameType", dom, "A", subdomain, key>>,
     body |-> [apikey |-> key, secretapikey |-> secret, name |-> full_name(dom, subdomain)]]

retrieve_request(key, secret, dom, subdomain) ==
    [op |-> "fetch", method |-> "POST",
     url |-> <<"https://api.porkbun.com/api/json/v3/dns/retrieveByNameType", dom, "A", subdomain>>,
     body |-> [apikey |-> key, secretapikey |-> secret, name |-> full_name(dom, subdomain)]]

(***************************************************************************)
(* update_porkbun_a_record.                                                *)
(***************************************************************************)
Ttl == 600

ApiResponses ==
    {[kind |-> "send_err"], [kind |-> "json_err"]}
        \cup [kind : {"json"}, status : Statuses, message : Messages]

\* a bug: two of the &str arguments change places in the URL
update_request_swapped_id(key, secret, record_id, dom, subdomain, new_ip) ==
    [op |-> "update", method |-> "POST",
     url |-> <<"https://api.porkbun.com/api/json/v3/dns/edit", record_id, dom>>,
     body |-> [apikey |-> key, secretapikey |-> secret, name |-> subdomain,
               type |-> "A", content |-> new_ip, ttl |-> 600]]

\* a bug: the name and the content change places in the body
update_request_swapped_content(key, secret, record_id, dom, subdomain, new_ip) ==
    [op |-> "update", method |-> "POST",
     url |-> <<"https://api.porkbun.com/api/json/v3/dns/edit", dom, record_id>>,
     body |-> [apikey |-> key, secretapikey |-> secret, name |-> new_ip,
               type |-> "A", content |-> subdomain, ttl |-> 600]]

update_request(key, secret, record_id, dom, subdomain, new_ip) ==
    [op |-> "update", method |-> "POST",
     url |-> <<"https://api.porkbun.com/api/json/v3/dns/edit", dom, record_id>>,
     body |-> [apikey |-> key, secretapikey |-> secret, name |-> subdomain,
               type |-> "A", content |-> new_ip, ttl |-> Ttl]]

update_porkbun_a_record(response) ==
    IF response.kind # "json" THEN Err(<<"reqwest::Error">>)
    ELSE IF response.status = "SUCCESS" THEN Ok(<<>>)
         ELSE Err(<<"Porkbun API error: ", unwrap_message(response.message)>>)

(***************************************************************************)
(* The log: info!, warn! and error! lines, each with the values formatted  *)
(* into it.  Every value is a sequence, a u64 by its decimal digits.       *)
(***************************************************************************)
Line(level, text, args) == [level |-> level, text |-> text, args |-> args]

\* the log after a step that wrote lines: the history is kept only in the
\* specification that watches the log
write(lines) == IF logs.some THEN Some(lines) ELSE None

DigitChar(d) == <<"0", "1", "2", "3", "4", "5", "6", "7", "8", "9">>[d + 1]

\* u64 as Display prints it
RECURSIVE to_string(_)
to_string(n) ==
    IF n < 10 THEN <<DigitChar(n)>>
    ELSE Append(to_string(n \div 10), DigitChar(n % 10))

\* the parts of a request's URL that are formatted into it
url_args(request) ==
    IF request.op = "fetch"
    THEN <<request.url[2]>> \o SubSeq(request.url, 4, Len(request.url))
    ELSE SubSeq(request.url, 2, Len(request.url))

\* an error as Display prints it: its text, and for an error of the HTTP
\* client the URL of the request
display(e, request) ==
    IF e = <<"reqwest::Error">> THEN <<e>> \o url_args(request) ELSE <<e>>

log_get_current_ipv4(response) ==
    <<Line("info", "Attempting to retrieve current public IPv4 address...", <<>>)>>
        \o (IF response.kind = "text"
            THEN <<Line("info", "Successfully retrieved current public IPv4: {}",
                        <<response.body>>)>>
            ELSE <<>>)

log_get_porkbun_a_record(dom, subdomain, response) ==
    LET name == full_name(dom, subdomain)
    IN  <<Line("info", "Retrieving A record for {} from Porkbun...", <<name>>)>>
            \o (IF response.kind # "json" THEN <<>>
                ELSE IF response.status = "SUCCESS"
                THEN IF response.records.some
                     THEN LET a_record == find_a_record(response.records.val, name)
                          IN  IF a_record.some
                              THEN <<Line("info", "Found existing A record for {}: {}",
                                          <<name, a_record.val.content>>)>>
                              ELSE <<Line("warn", "No A record found for {}.", <<name>>)>>
                     ELSE <<Line("warn", "Porkbun API returned success but no records for {}.",
                                 <<name>>)>>
                ELSE <<Line("error", "Failed to retrieve A record from Porkbun: {}",
                            <<<<unwrap_message(response.message)>>>>)>>)

log_update_porkbun_a_record(dom, subdomain, new_ip, response) ==
    <<Line("info", "Updating A record for {}.{} to new IP: {}", <<subdomain, dom, new_ip>>)>>
        \o (IF response.kind # "json" THEN <<>>
            ELSE IF response.status = "SUCCESS"
            THEN <<Line("info", "Successfully updated A record for {}.{} to {}",
                        <<subdomain, dom, new_ip>>)>>
            ELSE <<Line("error", "Failed to update A record on Porkbun: {}",
                        <<<<unwrap_message(response.message)>>>>)>>)

\* main.rs:240
log_processing(subdomain) ==
    <<Line("info", "Processing subdomain: {}",
           <<IF subdomain = <<>> THEN <<"root domain">> ELSE subdomain>>)>>

\* the lines of the matches on existing_record_result
log_existing_record(result, ip, dom, subdomain, request) ==
    IF ~result.ok
    THEN <<Line("error", "Error retrieving A record for {}.{}: {}",
                <<subdomain, dom>> \o display(result.err, request))>>
    ELSE IF ~result.val.some
    THEN <<Line("warn", "No existing A record found for {}.{}. This script only updates existing records. Please create an initial A record manually on Porkbun.",
                <<subdomain, dom>>)>>
    ELSE IF result.val.val.content = ip
    THEN <<Line("info", "Current IP ({}) matches existing Porkbun A record for {}.{}. No update needed.",
                <<ip, subdomain, dom>>)>>
    ELSE <<Line("info", "IP change detected for {}.{}! Old IP: {}, New IP: {}",
                <<subdomain, dom, result.val.val.content, ip>>)>>

\* main.rs:278
log_update_result(result, dom, subdomain, request) ==
    IF result.ok THEN <<>>
    ELSE <<Line("error", "Error updating A record for {}.{}: {}",
                <<subdomain, dom>> \o display(result.err, request))>>

\* main.rs:232 and the Err arm of the match on current_ip_result
log_cycle_start == <<Line("info", "--- Starting new check cycle ---", <<>>)>>

log_resolve_result(current_ip_result) ==
    IF current_ip_result.ok THEN <<>>
    ELSE <<Line("error", "Error getting current public IPv4 address: {}",
                display(current_ip_result.err, resolve_request))>>

log_sleep(secs) ==
    <<Line("info", "--- Check cycle finished. Sleeping for {} seconds ---",
           <<to_string(secs)>>)>>

log_start == <<Line("info", "Starting Porkbun Dynamic DNS Updater...", <<>>)>>

(***************************************************************************)
(* main: startup.  Every expect() panics on Err; a panic ends the process. *)
(***************************************************************************)
NoEnv ==
    [PORKBUN_API_KEY |-> Unread, PORKBUN_SECRET_API_KEY |-> Unread,
     PORKBUN_DOMAIN |-> Unread, PORKBUN_SUBDOMAIN |-> Unread,
     PORKBUN_CHECK_INTERVAL_SECONDS |-> Unread]

Read(r) == [read |-> TRUE, ok |-> r.ok, val |-> IF r.ok THEN r.val ELSE <<>>]

Unset == <<>>

cycle == <<current_ip, idx, existing_record_result, calls, outcome>>

\* main() is entered: nothing is read yet
Entered ==
    /\ pc = "read_api_key"
    /\ env = NoEnv
    /\ api_key = Unset
    /\ secret_api_key = Unset
    /\ domain = Unset
    /\ subdomains = Unset
    /\ check_interval_seconds = 0
    /\ current_ip = None
    /\ idx = 0
    /\ existing_record_result = None
    /\ calls = <<>>
    /\ outcome = "none"
    /\ resp = None
    /\ public_ip = None
    /\ zone = <<>>

Init == Entered /\ logs = None

\* the subdomain list: split on ',', every piece trimmed
parse_subdomains(subdomains_str) ==
    LET pieces == split(subdomains_str)
    IN  [i \in 1..Len(pieces) |-> trim(pieces[i])]

\* a bug: a missing or malformed setting is passed over
expect_lenient(r, next) == next

\* Result::expect: the value, or a panic that ends the process
expect(r, next) == IF r.ok THEN next ELSE "panicked"

ReadApiKey ==
    /\ pc = "read_api_key"
    /\ \E r \in EnvApiKey :
        /\ env' = [env EXCEPT !.PORKBUN_API_KEY = Read(r)]
        /\ api_key' = IF r.ok THEN r.val ELSE api_key
        /\ pc' = expect(r, "read_secret_api_key")
    /\ logs' = write(log_start)
    /\ UNCHANGED <<secret_api_key, domain, subdomains, check_interval_seconds, cycle, resp>>

ReadSecretApiKey ==
    /\ pc = "read_secret_api_key"
    /\ \E r \in EnvSecretKey :
        /\ env' = [env EXCEPT !.PORKBUN_SECRET_API_KEY = Read(r)]
        /\ secret_api_key' = IF r.ok THEN r.val ELSE secret_api_key
        /\ pc' = expect(r, "read_domain")
    /\ logs' = write(<<>>)
    /\ UNCHANGED <<api_key, domain, subdomains, check_interval_seconds, cycle, resp>>

ReadDomain ==
    /\ pc = "read_domain"
    /\ \E r \in EnvDomain :
        /\ env' = [env EXCEPT !.PORKBUN_DOMAIN = Read(r)]
        /\ domain' = IF r.ok THEN r.val ELSE domain
        /\ pc' = expect(r, "read_subdomains")
    /\ logs' = write(<<>>)
    /\ UNCHANGED <<api_key, secret_api_key, subdomains, check_interval_seconds, cycle, resp>>

ReadSubdomains ==
    /\ pc = "read_subdomains"
    /\ \E r \in EnvSubdomain :
        /\ env' = [env EXCEPT !.PORKBUN_SUBDOMAIN = Read(r)]
        /\ subdomains' = parse_subdomains(unwrap_or(r, DefaultSubdomains))
    /\ pc' = "read_check_interval"
    /\ logs' = write(<<>>)
    /\ UNCHANGED <<api_key, secret_api_key, domain, check_interval_seconds, cycle, resp>>

\* the last statement that can fail before the loop
ReadCheckInterval ==
    /\ pc = "read_check_interval"
    /\ \E r \in EnvInterval :
        LET parsed == parse_u64(unwrap_or(r, DefaultInterval))
        IN  /\ env' = [env EXCEPT !.PORKBUN_CHECK_INTERVAL_SECONDS = Read(r)]
            /\ check_interval_seconds' = IF parsed.ok THEN parsed.val ELSE check_interval_seconds
            /\ pc' = expect(parsed, "loop")
    /\ logs' = write(<<>>)
    /\ UNCHANGED <<api_key, secret_api_key, domain, subdomains, cycle, resp>>

(***************************************************************************)
(* main: the loop.                                                         *)
(***************************************************************************)
\* a call of the cycle, with the position of the subdomain it was made for
\* (0: for none)
CallFor(i, request) == request @@ [entry |-> i]

\* a bug: a failed resolution is retried at once, without the sleep
after_resolve_retries(current_ip_result) == IF current_ip_result.ok THEN "for" ELSE "loop"

\* a bug: the error is returned from main with ?, which ends the process
after_resolve_returns(current_ip_result) == IF current_ip_result.ok THEN "for" ELSE "panicked"

\* a bug: the address of the cycle before is remembered, and the records are
\* taken to be as that cycle left them when the address is the same
after_resolve_cached(current_ip_result) ==
    IF current_ip_result.ok /\ current_ip # Some(current_ip_result.val) THEN "for" ELSE "sleep"

\* the match on current_ip_result: the for loop, or straight to the sleep
after_resolve(current_ip_result) == IF current_ip_result.ok THEN "for" ELSE "sleep"

\* loop head: get_current_ipv4().await and the match on its result
ResolveIp(responses) ==
    /\ pc = "loop"
    /\ \E response \in responses :
        LET current_ip_result == get_current_ipv4(response)
        IN  /\ current_ip' = IF current_ip_result.ok THEN Some(current_ip_result.val) ELSE None
            /\ idx' = IF current_ip_result.ok THEN 1 ELSE 0
            /\ pc' = after_resolve(current_ip_result)
            /\ logs' = write(log_cycle_start \o log_get_current_ipv4(response)
                                  \o log_resolve_result(current_ip_result))
    /\ calls' = <<CallFor(0, resolve_request)>>
    /\ existing_record_result' = None
    /\ outcome' = "none"
    /\ UNCHANGED <<env, config, resp>>

\* a bug: every found record is updated, drifted or not
ip_differs_always(rec, ip) == TRUE

\* a bug: the comparison is the wrong way round
ip_differs_inverted(rec, ip) == rec.content = ip

\* main.rs:257
ip_differs(rec, ip) == rec.content # ip

\* a bug: the sleep stands inside the for loop
next_subdomain_sleeps_early(i, subs) == "sleep"

\* the for loop goes to the next subdomain, or ends and the cycle sleeps
next_subdomain(i, subs) == IF i < Len(subs) THEN "for" ELSE "sleep"

\* a bug: a failed fetch ends the for loop
after_fetch_breaks(result, ip, i, subs) ==
    IF ~result.ok THEN "sleep"
    ELSE IF result.val.some /\ ip_differs(result.val.val, ip) THEN "update"
    ELSE next_subdomain(i, subs)

\* a bug: the Err arm goes on to the update
after_fetch_updates_on_error(result, ip, i, subs) ==
    IF ~result.ok THEN "update"
    ELSE IF result.val.some /\ ip_differs(result.val.val, ip) THEN "update"
    ELSE next_subdomain(i, subs)

\* the matches on existing_record_result: the update call, or the next subdomain
after_fetch(result, ip, i, subs) ==
    IF result.ok /\ result.val.some /\ ip_differs(result.val.val, ip)
    THEN "update"
    ELSE next_subdomain(i, subs)

\* a bug: a missing record is created
FetchRecordOrCreate(responses) ==
    /\ pc = "for"
    /\ \E response \in responses :
        LET result == get_porkbun_a_record(domain, subdomains[idx], response)
            target == after_fetch(result, current_ip.val, idx, subdomains)
            fetch == CallFor(idx, retrieve_request(api_key, secret_api_key,
                                                   domain, subdomains[idx]))
            create == CallFor(idx, [op |-> "create", method |-> "POST",
                                    url |-> <<"https://api.porkbun.com/api/json/v3/dns/create", domain>>,
                                    body |-> [apikey |-> api_key, secretapikey |-> secret_api_key,
                                              name |-> subdomains[idx], type |-> "A",
                                              content |-> current_ip.val, ttl |-> 600]])
        IN  /\ existing_record_result' = result
            /\ pc' = target
            /\ logs' = write(log_processing(subdomains[idx])
                            \o log_get_porkbun_a_record(domain, subdomains[idx], response)
                            \o log_existing_record(result, current_ip.val, domain, subdomains[idx],
                                   retrieve_request(api_key, secret_api_key, domain, subdomains[idx])))
            /\ IF target = "update"
               THEN UNCHANGED <<idx, outcome>>
               ELSE /\ idx' = idx + 1
                    /\ outcome' = IF ~result.ok THEN "ReadFailed"
                                  ELSE IF ~result.val.some THEN "SkippedNoRecord"
                                  ELSE "NoChangeNeeded"
            /\ calls' = IF result = Ok(None) THEN calls \o <<fetch, create>>
                        ELSE Append(calls, fetch)
    /\ UNCHANGED <<env, config, current_ip, resp>>

\* one pass of the for body up to the update call: get_porkbun_a_record().await
\* and the matches on its result
FetchRecord(responses) ==
    /\ pc = "for"
    /\ \E response \in responses :
        LET result == get_porkbun_a_record(domain, subdomains[idx], response)
            target == after_fetch(result, current_ip.val, idx, subdomains)
        IN  /\ existing_record_result' = result
            /\ pc' = target
            /\ logs' = write(log_processing(subdomains[idx])
                            \o log_get_porkbun_a_record(domain, subdomains[idx], response)
                            \o log_existing_record(result, current_ip.val, domain, subdomains[idx],
                                   retrieve_request(api_key, secret_api_key, domain, subdomains[idx])))
            /\ IF target = "update"
               THEN UNCHANGED <<idx, outcome>>
               ELSE /\ idx' = idx + 1
                    /\ outcome' = IF ~result.ok THEN "ReadFailed"
                                  ELSE IF ~result.val.some THEN "SkippedNoRecord"
                                  ELSE "NoChangeNeeded"
    /\ calls' = Append(calls, CallFor(idx, retrieve_request(api_key, secret_api_key,
                                                            domain, subdomains[idx])))
    /\ UNCHANGED <<env, config, current_ip, resp>>

\* a bug: a failed update is sent once more at once
UpdateRecordRetries(responses) ==
    /\ pc = "update"
    /\ LET request == update_request(api_key, secret_api_key,
                           existing_record_result.val.val.id, domain, subdomains[idx],
                           current_ip.val)
       IN  \E response \in responses :
                LET result == update_porkbun_a_record(response)
                IN  /\ outcome' = IF result.ok THEN "Updated" ELSE "UpdateFailed"
                    /\ logs' = write(log_update_porkbun_a_record(domain, subdomains[idx],
                                                                 current_ip.val, response)
                                    \o log_update_result(result, domain, subdomains[idx], request))
                    /\ calls' = IF result.ok
                                THEN Append(calls, CallFor(idx, request))
                                ELSE calls \o <<CallFor(idx, request), CallFor(idx, request)>>
    /\ pc' = next_subdomain(idx, subdomains)
    /\ idx' = idx + 1
    /\ UNCHANGED <<env, config, current_ip, existing_record_result, resp>>

\* the rest of the for body: update_porkbun_a_record().await; its error is logged
UpdateRecord(responses) ==
    /\ pc = "update"
    /\ LET request == update_request(api_key, secret_api_key,
                           existing_record_result.val.val.id, domain, subdomains[idx],
                           current_ip.val)
       IN  /\ \E response \in responses :
                LET result == update_porkbun_a_record(response)
                IN  /\ outcome' = IF result.ok THEN "Updated" ELSE "UpdateFailed"
                    /\ logs' = write(log_update_porkbun_a_record(domain, subdomains[idx],
                                                                 current_ip.val, response)
                                    \o log_update_result(result, domain, subdomains[idx], request))
           /\ calls' = Append(calls, CallFor(idx, request))
    /\ pc' = next_subdomain(idx, subdomains)
    /\ idx' = idx + 1
    /\ UNCHANGED <<env, config, current_ip, existing_record_result, resp>>

\* a bug: the sleep is doubled after a failed resolution
sleep_request_backoff(secs) ==
    [op |-> "sleep", secs |-> IF current_ip.some THEN secs ELSE 2 * secs]

sleep_request(secs) == [op |-> "sleep", secs |-> secs]

\* the end of the loop body: sleep(Duration::from_secs(..)).await
Sleep ==
    /\ pc = "sleep"
    /\ calls' = Append(calls, CallFor(0, sleep_request(check_interval_seconds)))
    /\ logs' = write(log_sleep(check_interval_seconds))
    /\ pc' = "loop"
    /\ UNCHANGED <<env, config, current_ip, idx, existing_record_result, outcome, resp>>

\* the program alone: the services answer anything, and are not modelled
Program ==
    \/ ReadApiKey
    \/ ReadSecretApiKey
    \/ ReadDomain
    \/ ReadSubdomains
    \/ ReadCheckInterval
    \/ ResolveIp(IpResponses)
    \/ FetchRecord(ProviderResponses)
    \/ UpdateRecord(ApiResponses)
    \/ Sleep

Next == Program /\ UNCHANGED <<public_ip, zone>>

Spec == Init /\ [][Next]_vars

(***************************************************************************)
(* get_porkbun_a_record alone, applied to any response for any subdomain.  *)
(***************************************************************************)
\* records of either type and either name, with either id
AnyRecords ==
    { DnsRecord(t, n, <<"1">>, "600", i) :
        t \in {"A", "CNAME"}, n \in {<<"d">>, <<"w", ".", "d">>}, i \in {<<"r1">>, <<"r2">>} }

InitFetch ==
    /\ pc = "get_porkbun_a_record"
    /\ env = NoEnv
    /\ api_key \in ApiKeys
    /\ secret_api_key \in SecretKeys
    /\ domain \in Domains
    /\ subdomains \in {<<s>> : s \in {<<>>, <<"w">>}}
    /\ check_interval_seconds = 0
    /\ current_ip = None
    /\ idx = 1
    /\ existing_record_result = None
    /\ calls = <<>>
    /\ outcome = "none"
    /\ logs = None
    /\ public_ip = None
    /\ zone = <<>>
    /\ resp \in {Some(r) : r \in RetrieveResponses(SeqsUpTo(AnyRecords, MaxRecords))}

GetRecord ==
    /\ pc = "get_porkbun_a_record"
    /\ existing_record_result' = get_porkbun_a_record(domain, subdomains[idx], resp.val)
    /\ calls' = <<CallFor(idx, retrieve_request(api_key, secret_api_key, domain, subdomains[idx]))>>
    /\ pc' = "returned"
    /\ logs' = write(log_get_porkbun_a_record(domain, subdomains[idx], resp.val))
    /\ UNCHANGED <<env, config, current_ip, idx, outcome, resp, public_ip, zone>>

NextFetch == GetRecord

SpecFetch == InitFetch /\ [][NextFetch]_vars

\* the tokio runtime runs the one task whenever its await completes
LiveSpec == Spec /\ WF_vars(Next)

\* the program with its log watched
InitLog == Entered /\ logs = Some(<<>>)

SpecLog == InitLog /\ [][Next]_vars

(***************************************************************************)
(* The loop with its two services modelled: the echo service answers with  *)
(* public_ip, the provider answers a fetch with the records of zone, in    *)
(* their order, and applies the update requests it answers with SUCCESS.   *)
(* Nobody else changes zone.  Every call can fail.                         *)
(***************************************************************************)
\* the bodies of the echo service
PublicIps == {<<"1", "\n">>, <<"1", "1">>}

\* the values of PORKBUN_SUBDOMAIN: a name, the root, both, a name twice
ZoneSubdomainValues == {<<"w">>, <<>>, <<"w", ",">>, <<"w", ",", "w">>}

Zones == NoRepeatSeqsUpTo(ProviderRecords, MaxRecords)

\* the loop is entered with a configuration read from the environment
InitZone ==
    /\ pc = "loop"
    /\ \E k \in ApiKeys, sk \in SecretKeys, d \in Domains, v \in ZoneSubdomainValues :
        /\ env = [PORKBUN_API_KEY |-> Read(Ok(k)), PORKBUN_SECRET_API_KEY |-> Read(Ok(sk)),
                  PORKBUN_DOMAIN |-> Read(Ok(d)), PORKBUN_SUBDOMAIN |-> Read(Ok(v)),
                  PORKBUN_CHECK_INTERVAL_SECONDS |-> Read(VarError)]
        /\ api_key = k
        /\ secret_api_key = sk
        /\ domain = d
        /\ subdomains = parse_subdomains(v)
    /\ check_interval_seconds = parse_u64(DefaultInterval).val
    /\ current_ip = None
    /\ idx = 0
    /\ existing_record_result = None
    /\ calls = <<>>
    /\ outcome = "none"
    /\ resp = None
    /\ logs = None
    /\ public_ip \in {Some(b) : b \in PublicIps}
    /\ zone \in Zones

EchoAnswer == [kind |-> "text", body |-> public_ip.val]

ZoneAnswer == [kind |-> "json", status |-> "SUCCESS", message |-> None, records |-> Some(zone)]

UpdateAnswer == [kind |-> "json", status |-> "SUCCESS", message |-> None]

Failure == [kind |-> "send_err"]

\* the zone after the edit of the record with the id: its content is replaced
applied(records, id, content) ==
    [i \in DOMAIN records |->
        IF records[i].id = id THEN [records[i] EXCEPT !.content = content] ELSE records[i]]

\* the provider applies the edit request that was sent last
Edited == applied(zone, calls'[Len(calls')].url[3], calls'[Len(calls')].body.content)

ResolveOk == ResolveIp({EchoAnswer}) /\ UNCHANGED <<public_ip, zone>>

FetchOk(i) == idx = i /\ FetchRecord({ZoneAnswer}) /\ UNCHANGED <<public_ip, zone>>

UpdateOk(i) ==
    /\ idx = i
    /\ UpdateRecord({UpdateAnswer})
    /\ zone' = Edited
    /\ UNCHANGED public_ip

ResolveFails == ResolveIp({Failure}) /\ UNCHANGED <<public_ip, zone>>

FetchFails == FetchRecord({Failure}) /\ UNCHANGED <<public_ip, zone>>

\* the request fails, or the answer is lost or is an error: the edit may
\* have been applied all the same
UpdateFails ==
    /\ UpdateRecord({Failure, [UpdateAnswer EXCEPT !.status = "ERROR"]})
    /\ zone' \in {zone, Edited}
    /\ UNCHANGED public_ip

SleepZone == Sleep /\ UNCHANGED <<public_ip, zone>>

NextZone ==
    \/ ResolveOk
    \/ ResolveFails
    \/ \E i \in 1..MaxSubdomains : FetchOk(i)
    \/ FetchFails
    \/ \E i \in 1..MaxSubdomains : UpdateOk(i)
    \/ UpdateFails
    \/ SleepZone

SpecZone == InitZone /\ [][NextZone]_vars

\* the task runs whenever its await completes, and a call that is made again
\* and again does not fail for ever
SpecConverge ==
    /\ SpecZone
    /\ WF_vars(NextZone)
    /\ SF_vars(ResolveOk)
    /\ \A i \in 1..MaxSubdomains : SF_vars(FetchOk(i)) /\ SF_vars(UpdateOk(i))

(***************************************************************************)
(* Properties.                                                             *)
(***************************************************************************)
InLoop == pc \in {"loop", "for", "update", "sleep"}

\* the positions of the calls of this cycle with operation op
CallsOf(op) == {k \in DOMAIN calls : calls[k].op = op}

\* the calls of this cycle made for the subdomain at position i that write:
\* anything but the lookup
WritesFor(i) == {k \in DOMAIN calls : calls[k].entry = i /\ calls[k].op # "fetch"}

\* the for body has run to its end for the subdomain at position idx - 1, and
\* existing_record_result is what its fetch returned
Processed == pc \in {"for", "sleep", "loop"} /\ idx >= 2

FoundRecord == existing_record_result.ok /\ existing_record_result.val.some

\* C1: when the fetched record's content equals the IP resolved for the
\* cycle, no update call is made for that subdomain in the cycle.
C1_NoUpdateWithoutDrift ==
    (Processed /\ FoundRecord /\ existing_record_result.val.val.content = current_ip.val)
        => WritesFor(idx - 1) = {} /\ outcome = "NoChangeNeeded"

C1_Witness ==
    /\ pc = "sleep"
    /\ idx >= 2
    /\ FoundRecord
    /\ existing_record_result.val.val.content = <<"1", "1">>
    /\ current_ip = Some(<<"1", "1">>)
    /\ Len(subdomains) = 2

\* C2: when the fetched record's content differs from the resolved IP, exactly
\* one update call is made for that subdomain in the cycle; it carries the id
\* of the fetched record, the resolved IP as content, and ttl 600.
C2_OneUpdateOnDrift ==
    (Processed /\ FoundRecord /\ existing_record_result.val.val.content # current_ip.val)
        => /\ Cardinality(WritesFor(idx - 1)) = 1
           /\ \A k \in WritesFor(idx - 1) :
                /\ calls[k].op = "update"
                /\ calls[k].url = <<"https://api.porkbun.com/api/json/v3/dns/edit",
                                    domain, existing_record_result.val.val.id>>
                /\ calls[k].body.content = current_ip.val
                /\ calls[k].body.ttl = 600
           /\ outcome \in {"Updated", "UpdateFailed"}

\* the updated record had ttl "300"
C2_Witness ==
    /\ Processed
    /\ FoundRecord
    /\ existing_record_result.val.val.id = <<"r2">>
    /\ existing_record_result.val.val.ttl = "300"
    /\ current_ip = Some(<<"1">>)
    /\ \E k \in WritesFor(idx - 1) : calls[k].body.content = <<"1">>
    /\ outcome = "Updated"

\* C3: when the fetch succeeds and yields no record, no write call of any
\* kind is made for that subdomain in the cycle, in every cycle and whatever
\* the resolved IP is.
C3_NeverCreates ==
    (Processed /\ existing_record_result = Ok(None))
        => WritesFor(idx - 1) = {} /\ outcome = "SkippedNoRecord"

C3_Witness ==
    /\ pc = "loop"
    /\ idx = 3
    /\ existing_record_result = Ok(None)
    /\ current_ip = Some(<<"1">>)
    /\ CallsOf("update") # {}

\* the fetch calls of this cycle, in the order they were made
Fetches == SelectSeq(calls, LAMBDA c : c.op = "fetch")

\* the subdomains whose fetch has been made in this cycle
FetchedUpTo == IF pc = "update" THEN idx ELSE idx - 1

\* C4: in a cycle whose IP resolution succeeded, a fetch is made for every
\* configured subdomain entry, in order, whatever the outcome of the entries
\* before it; when the cycle sleeps, every entry has been fetched.
C4_EverySubdomainFetched ==
    (InLoop /\ current_ip.some)
        => /\ Len(Fetches) = FetchedUpTo
           /\ \A i \in 1..Len(Fetches) :
                /\ Fetches[i].entry = i
                /\ Fetches[i].url[4] = subdomains[i]
           /\ pc \in {"sleep", "loop"} => Len(Fetches) = Len(subdomains)

\* the first subdomain's fetch failed, and the second one is being updated
C4_Witness ==
    /\ pc = "update"
    /\ idx = 2
    /\ outcome = "ReadFailed"
    /\ Len(Fetches) = 2
    /\ Len(subdomains) >= 2

\* the IP resolution of the current cycle has failed
ResolveFailed == pc \in {"sleep", "loop"} /\ calls # <<>> /\ ~current_ip.some

\* C5: when IP resolution fails, no fetch and no update call is made in that
\* cycle, the loop goes on, and the next resolution comes after one sleep of
\* the configured interval.
C5_ResolveFailureSkipsCycle ==
    ResolveFailed
        => /\ CallsOf("fetch") = {} /\ CallsOf("update") = {}
           /\ pc = "sleep" => calls = <<CallFor(0, resolve_request)>> /\ ENABLED Sleep
           /\ pc = "loop" =>
                /\ calls = <<CallFor(0, resolve_request),
                             CallFor(0, [op |-> "sleep", secs |-> check_interval_seconds])>>
                /\ ENABLED ResolveIp(IpResponses)

C5_Witness == ResolveFailed /\ pc = "loop" /\ Len(calls) = 2 /\ check_interval_seconds = 300

\* the cycle's calls and decisions agree with the one resolved IP
C6_Inv ==
    calls # <<>>
        => /\ CallsOf("resolve") = {1}
           /\ CallsOf("update") # {} => current_ip.some
           /\ \A k \in CallsOf("update") : calls[k].body.content = current_ip.val
           /\ pc = "update" =>
                FoundRecord /\ existing_record_result.val.val.content # current_ip.val
           /\ (Processed /\ outcome = "NoChangeNeeded") =>
                FoundRecord /\ existing_record_result.val.val.content = current_ip.val

\* C6: the IP is resolved once per cycle, as the cycle's first call, and
\* every drift decision and every update content of the cycle uses that
\* value, which does not change while the subdomains are processed.
C6_OneIpPerCycle ==
    /\ []C6_Inv
    /\ [][(pc \in {"for", "update", "sleep"}) => (current_ip' = current_ip)]_vars

\* two subdomains were updated in one cycle
C6_Witness ==
    /\ pc = "sleep"
    /\ Cardinality(CallsOf("update")) = 2
    /\ current_ip = Some(<<>>)

\* the positions of the A records named name in a record list
Matches(records, name) ==
    {i \in DOMAIN records : records[i].record_type = "A" /\ records[i].name = name}

\* the name looked up: subdomain "." domain, or the domain for the empty subdomain
LookedUp ==
    IF Len(subdomains[idx]) = 0 THEN domain
    ELSE [i \in 1..(Len(subdomains[idx]) + 1 + Len(domain)) |->
            IF i <= Len(subdomains[idx]) THEN subdomains[idx][i]
            ELSE IF i = Len(subdomains[idx]) + 1 THEN "."
            ELSE domain[i - Len(subdomains[idx]) - 1]]

\* C7: on a SUCCESS response the fetch returns the first record, in the
\* provider's order, of type "A" and named exactly the fully-qualified name;
\* None when the list is absent, empty or holds no such record.
C7_FirstExactMatch ==
    (pc = "returned" /\ resp.val.kind = "json" /\ resp.val.status = "SUCCESS")
        => LET records == IF resp.val.records.some THEN resp.val.records.val ELSE <<>>
               m == Matches(records, LookedUp)
           IN  /\ existing_record_result.ok
               /\ m = {} => existing_record_result.val = None
               /\ m # {} =>
                    \E i \in m :
                        /\ \A j \in m : i <= j
                        /\ existing_record_result.val = Some(records[i])

\* a record of another type with the name comes first and is passed over
C7_Witness ==
    /\ pc = "returned"
    /\ resp.val.kind = "json"
    /\ resp.val.status = "SUCCESS"
    /\ resp.val.records.some
    /\ Len(resp.val.records.val) = 2
    /\ resp.val.records.val[1].record_type = "CNAME"
    /\ resp.val.records.val[1].name = <<"w", ".", "d">>
    /\ existing_record_result = Ok(Some(resp.val.records.val[2]))
    /\ existing_record_result.val.val.id = <<"r2">>

\* the state right after an IP resolution was attempted
JustResolved == Len(calls) = 1 /\ calls[1].op = "resolve"

\* C8: once the loop has started no outcome of a resolution, fetch or update
\* ends the process: every state of the loop has a next step and stays in the
\* loop, and another IP resolution is always eventually attempted.
C8_NoTerminalState ==
    /\ [](InLoop => ENABLED Next)
    /\ [][InLoop => InLoop']_vars
    /\ InLoop ~> (pc = "loop")
    /\ (pc = "loop") ~> JustResolved

\* back at the loop head after a cycle whose last update failed
C8_Witness ==
    /\ pc = "loop"
    /\ outcome = "UpdateFailed"
    /\ Len(subdomains) = 2
    /\ Len(calls) >= 5

\* the interval the environment configures: the variable's value, or 300
ConfiguredInterval ==
    LET r == env.PORKBUN_CHECK_INTERVAL_SECONDS
    IN  parse_u64(IF r.ok THEN r.val ELSE <<"3", "0", "0">>).val

\* a finished cycle holds one sleep, its last call, of the configured
\* interval; a cycle under way holds none
C9_Inv ==
    InLoop
        => /\ (pc = "loop" /\ calls # <<>>) =>
                /\ CallsOf("sleep") = {Len(calls)}
                /\ calls[Len(calls)].secs = ConfiguredInterval
           /\ pc # "loop" => CallsOf("sleep") = {}

\* C9: between two consecutive IP resolutions there is exactly one sleep, of
\* the configured interval, whatever the cycle's outcome; the interval never
\* changes.
C9_FixedSleep ==
    /\ []C9_Inv
    /\ [][InLoop => (check_interval_seconds' = check_interval_seconds)]_vars

\* the sleep after a cycle in which one subdomain's fetch failed
C9_Witness ==
    /\ pc = "loop"
    /\ outcome = "ReadFailed"
    /\ Len(subdomains) = 2
    /\ CallsOf("update") # {}
    /\ calls[Len(calls)].secs = 7

Missing(variable) == env[variable].read /\ ~env[variable].ok

\* the interval is set and is not a number
MalformedInterval ==
    /\ env.PORKBUN_CHECK_INTERVAL_SECONDS.read
    /\ env.PORKBUN_CHECK_INTERVAL_SECONDS.ok
    /\ ~parse_u64(env.PORKBUN_CHECK_INTERVAL_SECONDS.val).ok

\* C10: when the API key, the secret key or the domain is missing, or the
\* interval is set to something that is not a number, the process stops at
\* startup: it never enters the loop and makes no call.
C10_FatalStartup ==
    (\/ Missing("PORKBUN_API_KEY")
     \/ Missing("PORKBUN_SECRET_API_KEY")
     \/ Missing("PORKBUN_DOMAIN")
     \/ MalformedInterval)
        => pc = "panicked" /\ calls = <<>> /\ ~ENABLED Next

C10_Witness ==
    /\ pc = "panicked"
    /\ MalformedInterval
    /\ env.PORKBUN_CHECK_INTERVAL_SECONDS.val = <<"+">>
    /\ Len(subdomains) = 2

\* every value a credential can have
Credentials == ApiKeys \cup SecretKeys

\* the values formatted into the lines of the log
Logged ==
    UNION {{logs.val[i].args[j] : j \in DOMAIN logs.val[i].args} : i \in DOMAIN logs.val}

\* C11: the API key and the secret key are written to no log line; they
\* travel only as the apikey and secretapikey members of the JSON body of
\* the fetch and update requests, which have no part besides method, URL and
\* body: never in a URL, and never in the request to the IP echo service.
C11_KeysOnlyInBody ==
    /\ logs.some /\ Logged \cap Credentials = {}
    /\ \A k \in DOMAIN calls :
        LET call == calls[k]
        IN  IF call.op \in {"fetch", "update"}
            THEN /\ DOMAIN call = {"op", "method", "url", "body", "entry"}
                 /\ call.body.apikey = api_key
                 /\ call.body.secretapikey = secret_api_key
                 /\ call.body.name \notin Credentials
                 /\ call.op = "update" => call.body.content \notin Credentials
                 /\ \A i \in DOMAIN url_args(call) : url_args(call)[i] \notin Credentials
            ELSE "body" \notin DOMAIN call /\ (call.op = "resolve" => Len(call.url) = 1)

\* a failed update is logged with the request's URL, after a fetch and an
\* update that carried the keys
C11_Witness ==
    /\ outcome = "UpdateFailed"
    /\ pc = "sleep"
    /\ \E i \in DOMAIN logs.val :
        /\ logs.val[i].level = "error"
        /\ Len(logs.val[i].args) = 5
        /\ logs.val[i].args[5] = <<"r4">>
    /\ \E k \in CallsOf("update") : calls[k].body.apikey = <<"K">>
    /\ \E k \in CallsOf("fetch") : calls[k].body.secretapikey = <<"S">>

\* a fetch that fails: the request or the parsing fails, or the status is not SUCCESS
FailedFetch(response) == response.kind # "json" \/ response.status # "SUCCESS"

\* C12: a fetch whose transport fails, whose response cannot be parsed or
\* whose status is not SUCCESS returns an error, and after an error no update
\* call is made for that subdomain in the cycle: the update step is entered
\* only with a fetched record.
C12_FailedFetchNoUpdate ==
    /\ pc = "for" =>
            \A response \in ProviderResponses :
                FailedFetch(response)
                    => ~get_porkbun_a_record(domain, subdomains[idx], response).ok
    /\ pc = "update" => existing_record_result.ok
    /\ (Processed /\ ~existing_record_result.ok)
            => WritesFor(idx - 1) = {} /\ outcome = "ReadFailed"

\* the first subdomain was updated, the fetch of the second was answered
\* with status ERROR
C12_Witness ==
    /\ pc = "sleep"
    /\ idx = 3
    /\ existing_record_result = Err(<<"Porkbun API error: ", "Unknown error">>)
    /\ CallsOf("update") # {}
    /\ current_ip = Some(<<"1">>)

\* no two update requests of the cycle go to the same record
OneUpdatePerRecord ==
    \A j, k \in CallsOf("update") : calls[j].url = calls[k].url => j = k

\* the configured names are pairwise different
DistinctNames == \A i, j \in DOMAIN subdomains : subdomains[i] = subdomains[j] => i = j

\* C13 as stated: for any configured subdomain sequence, at most one update
\* request is sent for a given record within one cycle.
C13_AnySequence == OneUpdatePerRecord

\* C13, amended: within one cycle at most one update request is sent for
\* each configured entry, failed or not, and the update step is followed by
\* the next entry or the sleep, never by another update; a record gets at
\* most one update request in the cycle when no name is configured twice.
C13_OneUpdatePerEntry ==
    /\ [](\A j, k \in CallsOf("update") : calls[j].entry = calls[k].entry => j = k)
    /\ [](DistinctNames => OneUpdatePerRecord)
    /\ [][(pc = "update") => (pc' # "update" /\ idx' = idx + 1)]_vars

\* the update of the second of two different names has failed, and the
\* cycle goes to its sleep with one update request for each
C13_Witness ==
    /\ pc = "sleep"
    /\ outcome = "UpdateFailed"
    /\ Len(subdomains) = 2
    /\ DistinctNames
    /\ Cardinality(CallsOf("update")) = 2

\* the call at position k > 1 of the cycle stands where the loop body puts it
InOrder(k) ==
    LET c == calls[k]
        p == calls[k - 1]
    IN  /\ c.op # "resolve"
        /\ c.op = "fetch" =>
                /\ c.url[4] = subdomains[c.entry]
                /\ IF p.op = "resolve" THEN c.entry = 1
                   ELSE p.op \in {"fetch", "update"} /\ c.entry = p.entry + 1
        /\ c.op = "update" => p.op = "fetch" /\ p.entry = c.entry
        /\ c.op = "sleep" =>
                /\ k = Len(calls)
                /\ IF current_ip.some
                   THEN p.op \in {"fetch", "update"} /\ p.entry = Len(subdomains)
                   ELSE p.op = "resolve"

\* C14: the calls of a cycle are made one after the other: the IP resolution
\* first, the fetches in the configured order, an update directly after the
\* fetch of its own subdomain, and the sleep last, after the last subdomain;
\* a cycle begins only after the sleep of the one before, so the calls of two
\* cycles never interleave.
C14_SequentialOrdered ==
    /\ [](calls # <<>> =>
            calls[1].op = "resolve" /\ \A k \in 2..Len(calls) : InOrder(k))
    /\ [][InLoop =>
            \/ /\ calls' = Append(calls, calls'[Len(calls')])
               /\ pc # "loop"
            \/ /\ calls' = <<CallFor(0, resolve_request)>>
               /\ pc = "loop"
               /\ calls # <<>> => calls[Len(calls)].op = "sleep"]_vars

\* a finished cycle: resolve, fetch and update of the first name, fetch of
\* the second, sleep
C14_Witness ==
    /\ pc = "loop"
    /\ subdomains = <<<<"w">>, <<>>>>
    /\ Len(calls) = 5
    /\ calls[3].op = "update"
    /\ calls[4].op = "fetch"
    /\ calls[5].op = "sleep"

\* the last call of the cycle after the step
LastCall == calls'[Len(calls')]

\* C15: nothing of a record is carried from one cycle to the next: every
\* cycle whose IP resolution succeeds starts the for loop at the first
\* subdomain with no fetched record, whatever the cycle before ended in, and
\* fetches every subdomain; the update step is entered only from the fetch of
\* the same subdomain, on the record that fetch returned, and sends that
\* record's id.
C15_NothingCarried ==
    /\ [][(pc = "loop" /\ current_ip'.some)
            => (pc' = "for" /\ idx' = 1 /\ existing_record_result' = None)]_vars
    /\ []((pc \in {"sleep", "loop"} /\ current_ip.some)
            => \A i \in DOMAIN subdomains : \E k \in CallsOf("fetch") : calls[k].entry = i)
    /\ [][(pc' = "update" /\ pc # "update")
            => /\ pc = "for"
               /\ LastCall.op = "fetch" /\ LastCall.entry = idx'
               /\ existing_record_result'.ok /\ existing_record_result'.val.some
               /\ existing_record_result'.val.val.name = full_name(domain, subdomains[idx'])
               /\ existing_record_result'.val.val.content # current_ip.val]_vars
    /\ [][(pc = "update" /\ calls' # calls)
            => /\ LastCall.op = "update" /\ LastCall.entry = idx
               /\ LastCall.url[3] = existing_record_result.val.val.id
               /\ existing_record_result' = existing_record_result]_vars

\* a cycle has ended with the record of its last subdomain updated, and the
\* next cycle can start its for loop
C15_Witness ==
    /\ pc = "loop"
    /\ outcome = "Updated"
    /\ current_ip = Some(<<"1">>)
    /\ Len(subdomains) = 2
    /\ ENABLED (ResolveIp(IpResponses) /\ current_ip' = current_ip /\ pc' = "for")

\* the bodies the echo service delivered in the last step: each is logged as
\* it came (main.rs:76)
Delivered ==
    {logs.val[i].args[1] : i \in {i \in DOMAIN logs.val :
        logs.val[i].text = "Successfully retrieved current public IPv4: {}"}}

\* s without the whitespace at its two ends
Stripped(s) ==
    LET inner == {i \in DOMAIN s : s[i] \notin Whitespace}
    IN  IF inner = {} THEN <<>>
        ELSE SubSeq(s, CHOOSE i \in inner : \A j \in inner : i <= j,
                       CHOOSE i \in inner : \A j \in inner : j <= i)

\* C16: whatever body the echo service delivers, empty or not an address,
\* the resolution succeeds with the body without the whitespace at its ends
\* as the cycle's IP, and fails only when no body was delivered; the agent
\* validates nothing: a found record is updated exactly when its content
\* differs from that value, and the update sends the value as content.
C16_NoValidation ==
    /\ JustResolved =>
            /\ \A body \in Delivered : current_ip = Some(Stripped(body)) /\ pc = "for"
            /\ Delivered = {} => current_ip = None /\ pc = "sleep"
    /\ \A k \in CallsOf("update") : calls[k].body.content = current_ip.val
    /\ (Processed /\ FoundRecord) =>
            (WritesFor(idx - 1) # {} <=> existing_record_result.val.val.content # current_ip.val)

\* a body of whitespace gave the empty string as the cycle's IP, and the for
\* loop can go on to update a record with it
C16_Witness ==
    /\ JustResolved
    /\ Delivered = {<<" ", "\n">>}
    /\ current_ip = Some(<<>>)
    /\ ENABLED (FetchRecord(ProviderResponses) /\ pc' = "update")

\* PORKBUN_SUBDOMAIN has been read, and was not set or was set to nothing
NoSubdomains ==
    /\ env.PORKBUN_SUBDOMAIN.read
    /\ ~env.PORKBUN_SUBDOMAIN.ok \/ env.PORKBUN_SUBDOMAIN.val = <<>>

\* C17: when PORKBUN_SUBDOMAIN is unset or empty the subdomain sequence is
\* the one entry "", the root domain: a cycle with a resolved IP makes one
\* fetch, for the bare domain name.
C17_EmptyListIsRoot ==
    NoSubdomains
        => /\ subdomains = <<<<>>>>
           /\ (pc \in {"sleep", "loop"} /\ current_ip.some) =>
                /\ CallsOf("fetch") = {2}
                /\ calls[2].url = <<"https://api.porkbun.com/api/json/v3/dns/retrieveByNameType",
                                    domain, "A", <<>>>>
                /\ calls[2].body.name = domain

\* the setting is the empty string, and the cycle fetched and updated the
\* root's record
C17_Witness ==
    /\ NoSubdomains
    /\ env.PORKBUN_SUBDOMAIN.ok
    /\ pc = "loop"
    /\ current_ip = Some(<<"1">>)
    /\ calls[2].body.name = <<"d">>
    /\ CallsOf("update") = {3}

\* the position of the record a fetch for name returns: the first A record
\* of that name in the zone
FirstMatch(name) == CHOOSE i \in Matches(zone, name) : \A j \in Matches(zone, name) : i <= j

\* the configured names that have an A record in the zone
Served == {i \in DOMAIN subdomains : Matches(zone, full_name(domain, subdomains[i])) # {}}

\* the record fetched for every configured name holds the public IP
Converged ==
    \A i \in Served :
        zone[FirstMatch(full_name(domain, subdomains[i]))].content = Stripped(public_ip.val)

\* C18: with a public IP that stays the same, a provider that applies the
\* updates it answers with SUCCESS, nobody else changing the records, and
\* calls that do not fail for ever, eventually the record fetched for every
\* configured name that has an A record holds the public IP, and from then
\* on no update is made.
C18_Converges == <>[](Converged /\ pc # "update")

\* a cycle after the one that updated r2: both names fetched, no update made
C18_Witness ==
    /\ pc = "loop"
    /\ Converged
    /\ subdomains = <<<<"w">>, <<>>>>
    /\ Len(zone) = 2
    /\ zone[1].id = <<"r2">>
    /\ zone[1].content = <<"1">>
    /\ Cardinality(CallsOf("fetch")) = 2
    /\ CallsOf("update") = {}

\* the positions in the zone of the records fetched for the configured names
Targets == {FirstMatch(full_name(domain, subdomains[i])) : i \in Served}

\* C19: in every cycle every update request goes to the id of the record
\* that the fetch just before it, for the same configured name, returned:
\* the first record of the provider's list that has type A and exactly that
\* fully-qualified name.  Records of another type or name, or listed after
\* the first match, are never edited, and an edit changes the content alone.
C19_UpdatesOnlyFetchedRecord ==
    /\ [](\A k \in CallsOf("update") :
            LET name == full_name(domain, subdomains[calls[k].entry])
            IN  /\ calls[k - 1].op = "fetch"
                /\ calls[k - 1].body.name = name
                /\ Matches(zone, name) # {}
                /\ calls[k].url[3] = zone[FirstMatch(name)].id)
    /\ [][/\ DOMAIN zone' = DOMAIN zone
          /\ \A i \in DOMAIN zone :
                zone'[i] # zone[i]
                    => /\ i \in Targets
                       /\ zone'[i] = [zone[i] EXCEPT !.content = current_ip.val]]_vars

\* the record of the configured name was edited; the root's record, listed
\* before it and as far from the public IP, was not
C19_Witness ==
    /\ subdomains = <<<<"w">>>>
    /\ Len(zone) = 2
    /\ zone[1].id = <<"r4">>
    /\ zone[1].content = <<"1", "1">>
    /\ zone[2].id = <<"r2">>
    /\ zone[2].content = <<"1">>
    /\ \E k \in CallsOf("update") : calls[k].url[3] = <<"r2">>

====
